---- MODULE Spec2Model ----
(***************************************************************************)
(* Model of the mutating admission webhook in src/app/main.py: the static  *)
(* configuration, the path rewrite replace_home_path, the label check, the *)
(* container walk that builds the JSON Patch, and the /mutate handler with *)
(* its fail-open exception boundary.                                       *)
(*                                                                         *)
(* Python values are modelled as tagged records so that values of          *)
(* different Python types can be compared: a str is [str |-> s], a number  *)
(* [num |-> n], None / JSON null [null |-> TRUE], a list [list |-> seq], a *)
(* dict [map |-> function from keys].  Python strings are TLA+ strings.    *)
(* A raised exception is the value Raise; every operator that models a     *)
(* Python expression yields Raise when the expression raises.              *)
(***************************************************************************)
EXTENDS Integers, Sequences, FiniteSets, TLC

VARIABLES
    LABEL_KEY, LABEL_VALUE, REWRITE_FROM, REWRITE_TO, \* module-level configuration
    original_path, new_path, applications,            \* replace_home_path applied to a path
    request_body, http_status, response_json, exc_logged, \* one /mutate request
    threads                                           \* concurrently handled /mutate requests

config == <<LABEL_KEY, LABEL_VALUE, REWRITE_FROM, REWRITE_TO>>
rewrite_vars == <<original_path, new_path, applications>>
handler_vars == <<request_body, http_status, response_json, exc_logged>>
vars == <<config, rewrite_vars, handler_vars, threads>>

---------------------------------------------------------------------------
(* Bounds of the model. *)

\* longest path (after the leading "/") given to replace_home_path
MaxPathLen == 7
\* how often replace_home_path is applied to its own result
MaxApplications == 2
\* longest container list of a generated Pod or Deployment
MaxContainers == 2
\* most volume mounts, over all containers of one generated container list
MaxMounts == 2
\* requests handled at the same time
MaxRequests == 2

---------------------------------------------------------------------------
(* Python values. *)

None == [null |-> TRUE]
Raise == [exc |-> TRUE]
JStr(s) == [str |-> s]
JNum(n) == [num |-> n]
JBool(b) == [bool |-> b]
JList(q) == [list |-> q]
JMap(f) == [map |-> f]
EmptyMap == JMap(<<>>)
EmptyList == JList(<<>>)

IsStr(v) == "str" \in DOMAIN v
IsList(v) == "list" \in DOMAIN v
IsMap(v) == "map" \in DOMAIN v
IsRaise(v) == "exc" \in DOMAIN v

\* Python truthiness of a value, as used by `x or default`
Truthy(v) ==
    CASE "null" \in DOMAIN v -> FALSE
      [] "str" \in DOMAIN v -> v.str # ""
      [] "num" \in DOMAIN v -> v.num # 0
      [] "bool" \in DOMAIN v -> v.bool
      [] "list" \in DOMAIN v -> v.list # <<>>
      [] "map" \in DOMAIN v -> DOMAIN v.map # {}
      [] OTHER -> TRUE

\* `v or d`
Or(v, d) == IF IsRaise(v) THEN Raise ELSE IF Truthy(v) THEN v ELSE d

\* `v.get(k)`: None for a missing key, AttributeError when v is not a dict
Get(v, k) ==
    IF ~IsMap(v) THEN Raise
    ELSE IF k \in DOMAIN v.map THEN v.map[k] ELSE None

---------------------------------------------------------------------------
(* Python string operations. *)

\* s[n:]
SliceFrom(s, n) == IF n >= Len(s) THEN "" ELSE SubSeq(s, n + 1, Len(s))

\* s.startswith(p)
startswith(s, p) == Len(p) <= Len(s) /\ SubSeq(s, 1, Len(p)) = p

RECURSIVE rstrip(_)
\* s.rstrip("/")
rstrip(s) ==
    IF s # "" /\ SubSeq(s, Len(s), Len(s)) = "/"
    THEN rstrip(SubSeq(s, 1, Len(s) - 1))
    ELSE s

---------------------------------------------------------------------------
(* replace_home_path, src/app/main.py:57-77 *)

from_exact == REWRITE_FROM
from_prefix == rstrip(REWRITE_FROM) \o "/"
to_base == rstrip(REWRITE_TO)

\* the exact match answered from the source prefix instead of the destination
replace_home_path_from_source(p) ==
    IF p = from_exact THEN from_exact \o "/"
    ELSE IF startswith(p, from_prefix)
         THEN to_base \o SliceFrom(SliceFrom(p, Len(from_prefix) - 1), Len(from_exact))
         ELSE p

\* the path sliced at len(from_prefix) - 1 and then again at len(from_exact)
replace_home_path(p) ==
    IF p = from_exact THEN to_base \o "/"
    ELSE IF startswith(p, from_prefix)
         THEN to_base \o SliceFrom(SliceFrom(p, Len(from_prefix) - 1), Len(from_exact))
         ELSE p

---------------------------------------------------------------------------
(* has_target_label, src/app/main.py:47-54 *)

\* the label's presence tested, not its value
has_target_label_any_value(obj) ==
    LET labels == Or(Get(Or(Get(obj, "metadata"), EmptyMap), "labels"), EmptyMap)
        value == Get(labels, LABEL_KEY)
    IN  IF IsRaise(value) THEN Raise ELSE JBool(value # None)

\* metadata and labels read without `or {}`
has_target_label_no_default(obj) ==
    LET labels == Get(Get(obj, "metadata"), "labels")
        value == Get(labels, LABEL_KEY)
    IN  IF IsRaise(value) THEN Raise ELSE JBool(value = JStr(LABEL_VALUE))

\* JBool(labels.get(LABEL_KEY) == LABEL_VALUE), or Raise when metadata or
\* labels is a truthy value without .get
has_target_label(obj) ==
    LET labels == Or(Get(Or(Get(obj, "metadata"), EmptyMap), "labels"), EmptyMap)
        value == Get(labels, LABEL_KEY)
    IN  IF IsRaise(value) THEN Raise ELSE JBool(value = JStr(LABEL_VALUE))

---------------------------------------------------------------------------
(* patches_for_volume_mounts, src/app/main.py:80-112 *)

\* patches.extend(more); an exception raised while computing either side propagates
Extend(patches, more) ==
    IF IsRaise(patches) \/ IsRaise(more) THEN Raise
    ELSE JList(patches.list \o more.list)

\* the mount counted from 1
PatchPath_one_based(base_path, container_index, mount_index) ==
    base_path \o "/" \o ToString(container_index) \o "/volumeMounts/"
        \o ToString(mount_index + 1) \o "/mountPath"

\* f"{base_path}/{container_index}/volumeMounts/{mount_index}/mountPath"
PatchPath(base_path, container_index, mount_index) ==
    base_path \o "/" \o ToString(container_index) \o "/volumeMounts/"
        \o ToString(mount_index) \o "/mountPath"

ReplaceOp(path, value) ==
    JMap([op |-> JStr("replace"), path |-> JStr(path), value |-> JStr(value)])

\* the inner loop without the isinstance check: startswith on a value that is no str
MountPatches_unchecked(base_path, container_index, mount_index, mount) ==
    LET mount_path == Get(mount, "mountPath")
    IN  IF IsRaise(mount_path) \/ ~IsStr(mount_path) THEN Raise
        ELSE IF mount_path.str = from_exact \/ startswith(mount_path.str, from_prefix)
             THEN LET replaced == replace_home_path(mount_path.str)
                  IN  IF replaced # mount_path.str
                      THEN JList(<<ReplaceOp(PatchPath(base_path, container_index, mount_index),
                                             replaced)>>)
                      ELSE EmptyList
             ELSE EmptyList

\* body of the inner loop for one mount (lines 99-111)
MountPatches(base_path, container_index, mount_index, mount) ==
    LET mount_path == Get(mount, "mountPath")
    IN  IF IsRaise(mount_path) THEN Raise
        ELSE IF ~IsStr(mount_path) THEN EmptyList
        ELSE IF mount_path.str = from_exact \/ startswith(mount_path.str, from_prefix)
             THEN LET replaced == replace_home_path(mount_path.str)
                  IN  IF replaced # mount_path.str
                      THEN JList(<<ReplaceOp(PatchPath(base_path, container_index, mount_index),
                                             replaced)>>)
                      ELSE EmptyList
             ELSE EmptyList

RECURSIVE MountLoop(_, _, _, _)
\* for mount_index, mount in enumerate(volume_mounts), from mount_index on
MountLoop(base_path, container_index, volume_mounts, mount_index) ==
    IF mount_index >= Len(volume_mounts) THEN EmptyList
    ELSE Extend(MountPatches(base_path, container_index, mount_index,
                             volume_mounts[mount_index + 1]),
                MountLoop(base_path, container_index, volume_mounts, mount_index + 1))

\* body of the outer loop for one container (lines 97-98); enumerate() of a truthy
\* value that is not a list raises at once (number, bool) or yields str items,
\* on which mount.get raises
ContainerPatches(base_path, container_index, container) ==
    LET volume_mounts == Or(Get(container, "volumeMounts"), EmptyList)
    IN  IF IsRaise(volume_mounts) \/ ~IsList(volume_mounts) THEN Raise
        ELSE MountLoop(base_path, container_index, volume_mounts.list, 0)

RECURSIVE ContainerLoop(_, _, _)
\* for container_index, container in enumerate(containers or []), from container_index on
ContainerLoop(base_path, containers, container_index) ==
    IF container_index >= Len(containers) THEN EmptyList
    ELSE Extend(ContainerPatches(base_path, container_index, containers[container_index + 1]),
                ContainerLoop(base_path, containers, container_index + 1))

patches_for_volume_mounts(base_path, containers) ==
    LET cs == Or(containers, EmptyList)
    IN  IF IsRaise(cs) \/ ~IsList(cs) THEN Raise
        ELSE ContainerLoop(base_path, cs.list, 0)

---------------------------------------------------------------------------
(* build_patches, src/app/main.py:115-137 *)

build_patches(kind, obj) ==
    IF kind = JStr("Pod")
    THEN LET spec == Or(Get(obj, "spec"), EmptyMap)
             containers == Or(Get(spec, "containers"), EmptyList)
             init_containers == Or(Get(spec, "initContainers"), EmptyList)
         IN  Extend(patches_for_volume_mounts("/spec/containers", containers),
                    patches_for_volume_mounts("/spec/initContainers", init_containers))
    ELSE IF kind = JStr("Deployment")
    THEN LET template_spec ==
                 Or(Get(Or(Get(Or(Get(obj, "spec"), EmptyMap), "template"), EmptyMap), "spec"),
                    EmptyMap)
             containers == Or(Get(template_spec, "containers"), EmptyList)
             init_containers == Or(Get(template_spec, "initContainers"), EmptyList)
         IN  Extend(patches_for_volume_mounts("/spec/template/spec/containers", containers),
                    patches_for_volume_mounts("/spec/template/spec/initContainers",
                                              init_containers))
    ELSE EmptyList

---------------------------------------------------------------------------
(* mutate, src/app/main.py:140-198 *)

\* a request body that is not JSON
Unparseable == [unparseable |-> TRUE]

\* request.get_json(force=True, silent=False): BadRequest on a body that does not parse
get_json(raw) == IF raw = Unparseable THEN Raise ELSE raw

\* request.get_json(silent=True): None on a body that does not parse, the cached
\* document otherwise
get_json_silent(raw) == IF raw = Unparseable THEN None ELSE raw

\* json.dumps(ops) and base64.b64encode(...): injective encodings, kept symbolic
json_dumps(v) == [json |-> v]
b64encode(v) == [b64 |-> v]

BLANK_ADMISSIONREVIEW ==
    [apiVersion |-> JStr("admission.k8s.io/v1"), kind |-> JStr("AdmissionReview")]

\* jsonify({**BLANK_ADMISSIONREVIEW, "response": response}), HTTP 200
jsonify(response, logged) ==
    [status |-> 200,
     json |-> JMap([response |-> response] @@ BLANK_ADMISSIONREVIEW),
     exc_logged |-> logged]

\* the except branch without the recovery of the uid
fail_open_no_uid(raw) ==
    jsonify(JMap([uid |-> None, allowed |-> JBool(TRUE)]), TRUE)

\* the except branch, lines 190-198
fail_open(raw) ==
    LET found == Get(Or(Get(Or(get_json_silent(raw), EmptyMap), "request"), EmptyMap), "uid")
        fail_uid == IF IsRaise(found) THEN None ELSE found
    IN  jsonify(JMap([uid |-> fail_uid, allowed |-> JBool(TRUE)]), TRUE)

\* the patch attached whenever operations were computed, empty or not
respond_always_patch(uid, kind, obj) ==
    LET base == [uid |-> uid, allowed |-> JBool(TRUE)]
    IN  IF kind \notin {JStr("Pod"), JStr("Deployment")} THEN JMap(base)
        ELSE LET labelled == has_target_label(obj)
             IN  IF IsRaise(labelled) THEN Raise
                 ELSE IF ~labelled.bool THEN JMap(base)
                 ELSE LET ops == build_patches(kind, obj)
                      IN  IF IsRaise(ops) THEN Raise
                          ELSE JMap([patch |-> b64encode(json_dumps(ops)),
                                     patchType |-> JStr("JSONPatch")] @@ base)

\* lines 166-188: the response for the extracted uid, kind and object; Raise when a
\* step raises
respond(uid, kind, obj) ==
    LET base == [uid |-> uid, allowed |-> JBool(TRUE)]
    IN  IF kind \notin {JStr("Pod"), JStr("Deployment")} THEN JMap(base)
        ELSE LET labelled == has_target_label(obj)
             IN  IF IsRaise(labelled) THEN Raise
                 ELSE IF ~labelled.bool THEN JMap(base)
                 ELSE LET ops == build_patches(kind, obj)
                      IN  IF IsRaise(ops) THEN Raise
                          ELSE IF ~Truthy(ops) THEN JMap(base)
                          ELSE JMap([patch |-> b64encode(json_dumps(ops)),
                                     patchType |-> JStr("JSONPatch")] @@ base)

\* the try branch, lines 155-188: the response dict, or Raise
try_mutate(raw) ==
    LET body == get_json(raw)
        req == Or(Get(body, "request"), EmptyMap)
        uid == Get(req, "uid")
        kind == Get(Or(Get(req, "kind"), EmptyMap), "kind")
        operation == Or(Get(req, "operation"), JStr(""))
        obj == Or(Get(req, "object"), EmptyMap)
    IN  IF IsRaise(body) \/ ~IsMap(body) THEN Raise
        ELSE IF IsRaise(uid) \/ IsRaise(kind) THEN Raise
        ELSE IF ~IsStr(operation) THEN Raise
        ELSE respond(uid, kind, obj)

\* the handler without its except branch: the framework answers 500
mutate_unguarded(raw) ==
    LET response == try_mutate(raw)
    IN  IF IsRaise(response) THEN [status |-> 500, json |-> None, exc_logged |-> TRUE]
        ELSE jsonify(response, FALSE)

\* the whole handler: status, JSON document and whether the exception was logged
mutate(raw) ==
    LET response == try_mutate(raw)
    IN  IF IsRaise(response) THEN fail_open(raw) ELSE jsonify(response, FALSE)


---------------------------------------------------------------------------
(* Inputs of the rewrite specification. *)

DefaultLabel == <<"nfs-home", "true">>

\* <<REWRITE_FROM, REWRITE_TO>> as the environment may set them
RewriteConfigs ==
    { <<"/home", "/blah/home">>, <<"/home/", "/blah/home/">>,
      <<"/a", "/b">>, <<"/ab", "/a">>, <<"/a", "/">>, <<"/a", "/a/b">> }

Alphabet == {"/", "a", "b"}

RECURSIVE StrsUpTo(_)
StrsUpTo(n) ==
    IF n = 0 THEN {""}
    ELSE LET shorter == StrsUpTo(n - 1)
         IN  shorter \cup {s \o c : s \in {t \in shorter : Len(t) = n - 1}, c \in Alphabet}

ExamplePaths ==
    {"/home", "/home/", "/home/alice", "/home/x", "/home/user", "/homey", "/data",
     "/blah/home", "/blah/home/x"}

RewriteInputs == {"/" \o s : s \in StrsUpTo(MaxPathLen)} \cup ExamplePaths

NoRequest == [none |-> TRUE]

InitRewrite ==
    /\ \E c \in RewriteConfigs : REWRITE_FROM = c[1] /\ REWRITE_TO = c[2]
    /\ LABEL_KEY = DefaultLabel[1] /\ LABEL_VALUE = DefaultLabel[2]
    /\ original_path \in RewriteInputs
    /\ new_path = original_path
    /\ applications = 0
    /\ request_body = NoRequest /\ http_status = 0
    /\ response_json = None /\ exc_logged = FALSE
    /\ threads = <<>>

\* new_path = replace_home_path(mount_path), line 103, applied again to its result
Rewrite ==
    /\ applications < MaxApplications
    /\ new_path' = replace_home_path(new_path)
    /\ applications' = applications + 1
    /\ UNCHANGED <<config, original_path, handler_vars, threads>>

NextRewrite == Rewrite

SpecRewrite == InitRewrite /\ [][NextRewrite]_vars

---------------------------------------------------------------------------
(* Request bodies sent to /mutate. *)

Absent == [absent |-> TRUE]

\* the dict entry k: v, or no entry when v is Absent
Field(k, v) == IF v = Absent THEN <<>> ELSE (k :> v)

Mount(p) == JMap([name |-> JStr("vol"), mountPath |-> p])
Container(volume_mounts) == JMap(Field("volumeMounts", volume_mounts) @@ [name |-> JStr("c")])
PodSpec(containers, init_containers) ==
    JMap(Field("containers", containers) @@ Field("initContainers", init_containers))
Metadata(labels) == JMap(Field("labels", labels) @@ [name |-> JStr("w"), namespace |-> JStr("ns")])

\* a resource of the given kind: containers under spec for a Pod, under
\* spec.template.spec for anything else
Resource(kind, metadata, pod_spec) ==
    JMap(Field("metadata", metadata)
         @@ [spec |-> IF kind = "Pod" THEN pod_spec
                      ELSE JMap([replicas |-> JNum(1), template |-> JMap([spec |-> pod_spec])])])

KindInfo(kind) == JMap([group |-> JStr(""), version |-> JStr("v1"), kind |-> JStr(kind)])

AdmissionRequest(uid, kind_info, operation, object) ==
    JMap(Field("uid", uid) @@ Field("kind", kind_info) @@ Field("operation", operation)
         @@ Field("object", object))

AdmissionReview(req) == JMap(Field("request", req) @@ BLANK_ADMISSIONREVIEW)

TargetLabels == JMap(("nfs-home" :> JStr("true")) @@ ("tier" :> JStr("gold")))

\* the mounts of the example in the module docstring and one that does not match
HomeMounts == JList(<<Mount(JStr("/home")), Mount(JStr("/data")), Mount(JStr("/home/x"))>>)
HomeContainer == Container(HomeMounts)
HomePodSpec == PodSpec(JList(<<HomeContainer>>), Absent)
PlainPodSpec == PodSpec(JList(<<Container(JList(<<Mount(JStr("/data")), Mount(JStr("/homey"))>>))>>),
                        Absent)

(* Bodies whose envelope, kind or metadata varies, well formed or not. *)

TopLevelBodies ==
    { Unparseable, None, JStr("review"), JNum(7), JList(<<JNum(1)>>), EmptyMap,
      AdmissionReview(None), AdmissionReview(JStr("request")),
      AdmissionReview(JList(<<JStr("uid")>>)) }

UidValues == {Absent, JStr("u-1")}
KindInfoValues ==
    { Absent, None, JStr("Pod"), JMap([kind |-> JNum(1)]),
      KindInfo("Pod"), KindInfo("Deployment"), KindInfo("ConfigMap") }
OperationValues == {Absent, JStr("create"), JNum(5)}
LabelsValues ==
    { Absent, None, JStr("nfs-home=true"), JList(<<JStr("nfs-home")>>), EmptyMap,
      TargetLabels, JMap("nfs-home" :> JStr("false")), JMap("nfs-home" :> JBool(TRUE)),
      JMap([app |-> JStr("true")]), JMap([tier |-> JStr("gold")]) }
MetadataValues ==
    {Absent, None, JStr("metadata"), JList(<<JStr("labels")>>)}
        \cup {Metadata(l) : l \in LabelsValues}

\* the resource shape that goes with a kind descriptor
ShapeOf(kind_info) == IF kind_info = KindInfo("Deployment") THEN "Deployment" ELSE "Pod"

ObjectValues(kind_info) ==
    {Absent, None, JStr("object")}
        \cup {Resource(ShapeOf(kind_info), m, ps) : m \in MetadataValues,
                                                    ps \in {HomePodSpec, PlainPodSpec}}

EnvelopeBodies ==
    TopLevelBodies
        \cup UNION { {AdmissionReview(AdmissionRequest(u, k, o, obj)) : obj \in ObjectValues(k)}
                     : u \in UidValues, k \in KindInfoValues, o \in OperationValues }

(* Labelled Pods and Deployments whose container lists vary. *)

MountValues ==
    {Mount(JStr("/home")), Mount(JStr("/home/x")), Mount(JStr("/data")), Mount(JNum(5))}

\* the containers with exactly k mounts
ContainersWith(k) ==
    {Container(JList(m)) : m \in [1..k -> MountValues]}
        \cup (IF k = 0 THEN {Container(Absent)} ELSE {})

RECURSIVE ContainerLists(_, _)
\* the lists of at most n containers with at most w mounts in all
ContainerLists(n, w) ==
    IF n = 0 THEN {<<>>}
    ELSE {<<>>} \cup UNION { {<<c>> \o rest : c \in ContainersWith(k),
                                              rest \in ContainerLists(n - 1, w - k)}
                             : k \in 0..w }

InitContainerValues ==
    { Absent,
      JList(<<Container(JList(<<Mount(JStr("/home/x"))>>))>>),
      JList(<<Container(JList(<<Mount(JStr("/data"))>>)),
              Container(JList(<<Mount(JStr("/data")), Mount(JStr("/home"))>>))>>) }

WalkKinds == {"Pod", "Deployment"}

LabelledReview(kind, pod_spec) ==
    AdmissionReview(AdmissionRequest(JStr("u-2"), KindInfo(kind), JStr("CREATE"),
                                     Resource(kind, Metadata(TargetLabels), pod_spec)))

WalkBodies ==
    { LabelledReview(k, PodSpec(JList(cs), ics)) :
        k \in WalkKinds, cs \in ContainerLists(MaxContainers, MaxMounts),
        ics \in InitContainerValues }

(* Labelled Pods and Deployments with one ill-shaped value next to HomeContainer. *)

IllShapedVolumeMounts ==
    { JStr("mounts"), JNum(1), JBool(TRUE), JMap([mountPath |-> JStr("/home")]),
      JList(<<Mount(JStr("/home/x")), JStr("mount")>>),
      JList(<<JNum(3), Mount(JStr("/home"))>>),
      JList(<<None>>) }

IllShapedContainers ==
    {JStr("container"), None, JNum(2)} \cup {Container(vm) : vm \in IllShapedVolumeMounts}

\* shapes the accessors take for empty: null, empty or otherwise falsy values
EmptyShapedContainers ==
    {Container(vm) : vm \in {None, EmptyList, JStr(""), JNum(0), JBool(FALSE), EmptyMap}}
        \cup {Container(JList(<<Mount(None), Mount(Absent), Mount(JList(<<JStr("/home")>>)),
                                 Mount(JStr("/home/"))>>))}

IllShapedContainerLists ==
    {JStr("containers"), JNum(1), JMap([name |-> JStr("c")])}
        \cup UNION { {JList(<<HomeContainer, c>>), JList(<<c, HomeContainer>>)}
                     : c \in IllShapedContainers }

EmptyShapedContainerLists ==
    UNION { {JList(<<HomeContainer, c>>), JList(<<c, HomeContainer>>)}
            : c \in EmptyShapedContainers }

ShapeBodies ==
    { LabelledReview(k, ps) :
        k \in WalkKinds,
        ps \in {PodSpec(cs, Absent) : cs \in IllShapedContainerLists \cup EmptyShapedContainerLists}
               \cup {PodSpec(JList(<<HomeContainer>>), ics) : ics \in IllShapedContainerLists}
               \cup {None, JStr("spec"), EmptyMap, PodSpec(None, None)} }

Bodies == EnvelopeBodies \cup WalkBodies \cup ShapeBodies

---------------------------------------------------------------------------
(* The webhook serving one request at a time. *)

\* <<LABEL_KEY, LABEL_VALUE, REWRITE_FROM, REWRITE_TO>> as the environment may set them
HandlerConfigs ==
    { <<"nfs-home", "true", "/home", "/blah/home">>,
      <<"nfs-home", "true", "/home/", "/blah/home/">>,
      <<"tier", "gold", "/home", "/blah/home">> }

Init ==
    /\ \E c \in HandlerConfigs :
         /\ LABEL_KEY = c[1] /\ LABEL_VALUE = c[2]
         /\ REWRITE_FROM = c[3] /\ REWRITE_TO = c[4]
    /\ original_path = "" /\ new_path = "" /\ applications = 0
    /\ request_body = NoRequest /\ http_status = 0
    /\ response_json = None /\ exc_logged = FALSE
    /\ threads = <<>>

\* a POST /mutate arrives
Receive ==
    /\ request_body = NoRequest
    /\ \E raw \in Bodies : request_body' = raw
    /\ UNCHANGED <<config, rewrite_vars, http_status, response_json, exc_logged, threads>>

\* mutate() runs to its return
Mutate ==
    /\ request_body # NoRequest
    /\ http_status = 0
    /\ LET result == mutate(request_body)
       IN  /\ http_status' = result.status
           /\ response_json' = result.json
           /\ exc_logged' = result.exc_logged
    /\ UNCHANGED <<config, rewrite_vars, request_body, threads>>

\* the response is sent; the request and everything computed for it is gone
Reply ==
    /\ http_status # 0
    /\ request_body' = NoRequest /\ http_status' = 0
    /\ response_json' = None /\ exc_logged' = FALSE
    /\ UNCHANGED <<config, rewrite_vars, threads>>

Next == Receive \/ Mutate \/ Reply

Spec == Init /\ [][Next]_vars

---------------------------------------------------------------------------
(* The webhook serving several requests at once, one thread for each: mutate()  *)
(* line by line, every thread with its own locals.                              *)

Threads == 1..MaxRequests

IdleThread ==
    [pc |-> "idle", raw |-> NoRequest, uid |-> None, kind |-> None, obj |-> None,
     response |-> None, result |-> None]

ConcurrentBodies ==
    { Unparseable, JList(<<JNum(1)>>),
      LabelledReview("Pod", HomePodSpec), LabelledReview("Deployment", HomePodSpec),
      LabelledReview("Pod", PlainPodSpec),
      LabelledReview("Pod", PodSpec(JList(<<HomeContainer, Container(JStr("mounts"))>>), Absent)),
      AdmissionReview(AdmissionRequest(JStr("u-1"), KindInfo("ConfigMap"), JStr("CREATE"),
                                       Resource("Pod", Metadata(TargetLabels), HomePodSpec))),
      AdmissionReview(AdmissionRequest(JStr("u-1"), KindInfo("Pod"), JNum(5),
                                       Resource("Pod", Metadata(TargetLabels), HomePodSpec))),
      AdmissionReview(AdmissionRequest(JStr("u-1"), KindInfo("Pod"), JStr("UPDATE"),
                                       Resource("Pod", JStr("metadata"), HomePodSpec))) }

InitConcurrent ==
    /\ \E c \in HandlerConfigs :
         /\ LABEL_KEY = c[1] /\ LABEL_VALUE = c[2]
         /\ REWRITE_FROM = c[3] /\ REWRITE_TO = c[4]
    /\ original_path = "" /\ new_path = "" /\ applications = 0
    /\ request_body = NoRequest /\ http_status = 0
    /\ response_json = None /\ exc_logged = FALSE
    /\ threads = [t \in Threads |-> IdleThread]

Others == <<config, rewrite_vars, handler_vars>>

\* a POST /mutate arrives and gets a thread
Accept(t) ==
    /\ threads[t].pc = "idle"
    /\ \E raw \in ConcurrentBodies :
         threads' = [threads EXCEPT ![t] = [IdleThread EXCEPT !.pc = "parse", !.raw = raw]]
    /\ UNCHANGED Others

\* lines 155-157
Parse(t) ==
    /\ threads[t].pc = "parse"
    /\ LET body == get_json(threads[t].raw)
       IN  threads' = [threads EXCEPT ![t].pc =
                           IF IsRaise(body) \/ ~IsMap(body) THEN "except" ELSE "extract"]
    /\ UNCHANGED Others

\* req, uid, kind and obj as the thread at "extract" reads them from its body
Extracted(t) ==
    LET req == Or(Get(threads[t].raw, "request"), EmptyMap)
        uid == Get(req, "uid")
        kind == Get(Or(Get(req, "kind"), EmptyMap), "kind")
        operation == Or(Get(req, "operation"), JStr(""))
        raised == IsRaise(uid) \/ IsRaise(kind) \/ ~IsStr(operation)
    IN  [raised |-> raised,
         uid |-> uid, kind |-> kind, obj |-> Or(Get(req, "object"), EmptyMap)]

\* uid, kind and obj kept in module-level names that all threads share
Extract_shared(t) ==
    /\ threads[t].pc = "extract"
    /\ LET e == Extracted(t)
       IN  threads' =
             [u \in Threads |->
                IF e.raised
                THEN (IF u = t THEN [threads[u] EXCEPT !.pc = "except"] ELSE threads[u])
                ELSE [threads[u] EXCEPT
                          !.pc = IF u = t THEN "gate" ELSE @,
                          !.uid = e.uid, !.kind = e.kind, !.obj = e.obj,
                          !.response = IF u = t
                                       THEN JMap([uid |-> e.uid, allowed |-> JBool(TRUE)])
                                       ELSE @]]
    /\ UNCHANGED Others

\* lines 159-166
Extract(t) ==
    /\ threads[t].pc = "extract"
    /\ LET e == Extracted(t)
       IN  threads' =
             [threads EXCEPT ![t] =
                IF e.raised THEN [@ EXCEPT !.pc = "except"]
                ELSE [@ EXCEPT !.pc = "gate", !.uid = e.uid, !.kind = e.kind, !.obj = e.obj,
                               !.response = JMap([uid |-> e.uid, allowed |-> JBool(TRUE)])]]
    /\ UNCHANGED Others

\* line 168
Gate(t) ==
    /\ threads[t].pc = "gate"
    /\ LET labelled == has_target_label(threads[t].obj)
       IN  threads' = [threads EXCEPT ![t].pc =
                           IF threads[t].kind \notin {JStr("Pod"), JStr("Deployment")}
                           THEN "return"
                           ELSE IF IsRaise(labelled) THEN "except"
                           ELSE IF labelled.bool THEN "build" ELSE "return"]
    /\ UNCHANGED Others

\* lines 169-186
Build(t) ==
    /\ threads[t].pc = "build"
    /\ LET ops == build_patches(threads[t].kind, threads[t].obj)
       IN  threads' =
             [threads EXCEPT ![t] =
                IF IsRaise(ops) THEN [@ EXCEPT !.pc = "except"]
                ELSE IF ~Truthy(ops) THEN [@ EXCEPT !.pc = "return"]
                ELSE [@ EXCEPT !.pc = "return",
                               !.response = JMap([patch |-> b64encode(json_dumps(ops)),
                                                  patchType |-> JStr("JSONPatch")]
                                                 @@ @.map)]]
    /\ UNCHANGED Others

\* line 188
Return(t) ==
    /\ threads[t].pc = "return"
    /\ threads' = [threads EXCEPT ![t].pc = "done",
                                  ![t].result = jsonify(threads[t].response, FALSE)]
    /\ UNCHANGED Others

\* lines 190-198
Except(t) ==
    /\ threads[t].pc = "except"
    /\ threads' = [threads EXCEPT ![t].pc = "done", ![t].result = fail_open(threads[t].raw)]
    /\ UNCHANGED Others

\* the response is sent and the thread ends
Finish(t) ==
    /\ threads[t].pc = "done"
    /\ threads' = [threads EXCEPT ![t] = IdleThread]
    /\ UNCHANGED Others

NextConcurrent ==
    \E t \in Threads :
        \/ Accept(t) \/ Parse(t) \/ Extract(t) \/ Gate(t) \/ Build(t)
        \/ Return(t) \/ Except(t) \/ Finish(t)

SpecConcurrent == InitConcurrent /\ [][NextConcurrent]_vars

---------------------------------------------------------------------------
(* Reading a request and its response, for the claims about the handler. *)

RECURSIVE Dig(_, _)
\* the value under the nested keys, Absent when a step is missing or not a mapping
Dig(v, keys) ==
    IF keys = <<>> THEN v
    ELSE IF IsMap(v) /\ Head(keys) \in DOMAIN v.map
         THEN Dig(v.map[Head(keys)], Tail(keys))
         ELSE Absent

Handled == http_status # 0
RespField(k) == Dig(response_json, <<"response", k>>)
HasPatch == RespField("patch") # Absent

\* the operations carried by the response, decoded; none without a patch
DecodedOps ==
    LET p == RespField("patch")
    IN  IF p # Absent /\ "b64" \in DOMAIN p /\ IsList(p.b64.json) THEN p.b64.json.list ELSE <<>>

OpPaths == {DecodedOps[n].map.path.str : n \in 1..Len(DecodedOps)}

ReqKind == Dig(request_body, <<"request", "kind", "kind">>)
ReqObject == Dig(request_body, <<"request", "object">>)
ReqOperation == Dig(request_body, <<"request", "operation">>)
ReqLabels == Dig(ReqObject, <<"metadata", "labels">>)

IsWorkload == ReqKind \in {JStr("Pod"), JStr("Deployment")}
HasLabel == Dig(ReqLabels, <<LABEL_KEY>>) = JStr(LABEL_VALUE)
Eligible == IsWorkload /\ HasLabel /\ (ReqOperation = Absent \/ IsStr(ReqOperation))

\* absent, null or otherwise falsy: what `x or default` replaces by the default
TakenForEmpty(v) == v = Absent \/ ~Truthy(v)

\* the container lists of the request's object, each with its JSON Pointer
Locations ==
    IF ReqKind = JStr("Pod")
    THEN { [base |-> "/spec/containers", val |-> Dig(ReqObject, <<"spec", "containers">>)],
           [base |-> "/spec/initContainers",
            val |-> Dig(ReqObject, <<"spec", "initContainers">>)] }
    ELSE IF ReqKind = JStr("Deployment")
    THEN { [base |-> "/spec/template/spec/containers",
            val |-> Dig(ReqObject, <<"spec", "template", "spec", "containers">>)],
           [base |-> "/spec/template/spec/initContainers",
            val |-> Dig(ReqObject, <<"spec", "template", "spec", "initContainers">>)] }
    ELSE {}

Items(v) == IF v # Absent /\ IsList(v) THEN v.list ELSE <<>>
MountsOf(container) == Items(Dig(container, <<"volumeMounts">>))

\* every container is a mapping and every mount of a list of mounts is a mapping
MappingsOnly(v) ==
    \A i \in 1..Len(Items(v)) :
        /\ IsMap(Items(v)[i])
        /\ \A j \in 1..Len(MountsOf(Items(v)[i])) : IsMap(MountsOf(Items(v)[i])[j])

\* container lists and mount lists are lists or absent
ListsOnly(v) ==
    /\ v = Absent \/ IsList(v)
    /\ \A i \in 1..Len(Items(v)) :
        LET vm == Dig(Items(v)[i], <<"volumeMounts">>) IN vm = Absent \/ IsList(vm)

\* container lists and mount lists are lists, or what the accessors take for empty
ListsOrEmpty(v) ==
    /\ TakenForEmpty(v) \/ IsList(v)
    /\ \A i \in 1..Len(Items(v)) :
        LET vm == Dig(Items(v)[i], <<"volumeMounts">>) IN TakenForEmpty(vm) \/ IsList(vm)

\* some container has a truthy volumeMounts that is not a list
SomeMountsNotAList(v) ==
    \E i \in 1..Len(Items(v)) :
        LET vm == Dig(Items(v)[i], <<"volumeMounts">>) IN ~TakenForEmpty(vm) /\ ~IsList(vm)

\* the mappings on the way to the container lists are mappings, or taken for empty
IntermediatesOk ==
    LET ok(v) == TakenForEmpty(v) \/ IsMap(v)
    IN  /\ ok(ReqObject) /\ ok(Dig(ReqObject, <<"spec">>))
        /\ ReqKind = JStr("Deployment") =>
              /\ ok(Dig(ReqObject, <<"spec", "template">>))
              /\ ok(Dig(ReqObject, <<"spec", "template", "spec">>))

WellFormedObject ==
    IntermediatesOk /\ \A loc \in Locations : ListsOnly(loc.val) /\ MappingsOnly(loc.val)

ReqMetadata == Dig(ReqObject, <<"metadata">>)
ReqUid == Dig(request_body, <<"request", "uid">>)

MatchesSource(p) == p = REWRITE_FROM \/ startswith(p, REWRITE_FROM \o "/")
MatchesStrippedSource(p) == p = REWRITE_FROM \/ startswith(p, rstrip(REWRITE_FROM) \o "/")

\* "<base>/<i>/volumeMounts/<j>/mountPath" for every mount, at 0-based indices i and j
\* of the request's object, whose mountPath is a string that matches and whose
\* rewritten value differs
ExpectedPaths(Matches(_)) ==
    UNION { UNION {
        { loc.base \o "/" \o ToString(i - 1) \o "/volumeMounts/" \o ToString(j - 1)
              \o "/mountPath" :
          j \in { k \in 1..Len(MountsOf(Items(loc.val)[i])) :
                    LET mp == Dig(MountsOf(Items(loc.val)[i])[k], <<"mountPath">>)
                    IN  /\ mp # Absent /\ IsStr(mp)
                        /\ Matches(mp.str)
                        /\ replace_home_path(mp.str) # mp.str } }
        : i \in 1..Len(Items(loc.val)) } : loc \in Locations }

ExactlyTheOps(Matches(_)) ==
    /\ OpPaths = ExpectedPaths(Matches)
    /\ Len(DecodedOps) = Cardinality(ExpectedPaths(Matches))
    /\ \A n \in 1..Len(DecodedOps) : DecodedOps[n].map.op = JStr("replace")

---------------------------------------------------------------------------
(* Claims about replace_home_path. *)

\* C1: for every suffix T, replace_home_path(S + "/" + T) = normalized(D) + "/" + T
C1_DescendantKeepsSuffix ==
    (applications = 1 /\ startswith(original_path, REWRITE_FROM \o "/"))
        => new_path = to_base \o "/" \o SliceFrom(original_path, Len(REWRITE_FROM) + 1)

\* d is the directory s itself or lies below it
IsDescendantOrEqual(d, s) ==
    rstrip(d) = rstrip(s) \/ startswith(d, rstrip(s) \o "/")

\* C9 as stated: when the destination is not equal to and not a descendant of
\* the source, a rewritten path is returned unchanged by a second rewrite
C9_IdempotentUnlessDescendant ==
    (applications >= 1 /\ ~IsDescendantOrEqual(REWRITE_TO, REWRITE_FROM))
        => replace_home_path(new_path) = new_path

\* neither normalized prefix is a leading substring of the other
PrefixesIncomparable ==
    /\ ~startswith(from_prefix, to_base)
    /\ ~startswith(to_base, from_prefix)

\* C9 amended: when neither to_base nor from_prefix is a leading substring of
\* the other, a rewritten path is returned unchanged by a second rewrite
C9_IdempotentWhenIncomparable ==
    (applications >= 1 /\ PrefixesIncomparable)
        => replace_home_path(new_path) = new_path

\* a matching path was rewritten under incomparable prefixes and is now stable
C9_Witness ==
    /\ applications = 2
    /\ PrefixesIncomparable
    /\ startswith(original_path, from_prefix)
    /\ new_path # original_path
    /\ replace_home_path(new_path) = new_path

---------------------------------------------------------------------------
(* Claims about the handler. *)

\* C2: whatever the body, the handler answers HTTP 200 with an AdmissionReview
\* whose response.allowed is true, and without a patch when the body does not parse
C2_AlwaysAllows ==
    Handled =>
        /\ http_status = 200
        /\ Dig(response_json, <<"kind">>) = JStr("AdmissionReview")
        /\ RespField("allowed") = JBool(TRUE)
        /\ (request_body = Unparseable => ~HasPatch)

\* a body that does not parse was answered through the except branch
C2_Witness ==
    Handled /\ request_body = Unparseable /\ exc_logged /\ RespField("allowed") = JBool(TRUE)

\* the operations the handler computed for the request, none when it did not get to it
ComputedOps ==
    LET labelled == has_target_label(Or(ReqObject, EmptyMap))
        ops == build_patches(ReqKind, Or(ReqObject, EmptyMap))
    IN  IF exc_logged \/ ~IsWorkload \/ IsRaise(labelled) THEN <<>>
        ELSE IF ~labelled.bool \/ IsRaise(ops) THEN <<>>
        ELSE ops.list

\* C3: patch and patchType are present together, exactly when the computed
\* sequence of operations is not empty, and patchType is then "JSONPatch"
C3_PatchIffOps ==
    Handled =>
        /\ HasPatch <=> ComputedOps # <<>>
        /\ HasPatch <=> RespField("patchType") # Absent
        /\ HasPatch => RespField("patchType") = JStr("JSONPatch") /\ DecodedOps = ComputedOps

\* a labelled workload without a matching mount was answered without patch or patchType
C3_Witness ==
    /\ Handled /\ Eligible /\ ~exc_logged
    /\ ComputedOps = <<>>
    /\ ~HasPatch /\ RespField("patchType") = Absent

\* C4: a response carries a patch only if the kind is exactly Pod or Deployment and
\* metadata.labels holds the configured key with exactly the configured value
C4_PatchOnlyIfEligible ==
    (Handled /\ HasPatch) => (IsWorkload /\ HasLabel)

\* a labelled ConfigMap with mounts under the source prefix was allowed without patch
C4_Witness ==
    /\ Handled /\ ~HasPatch
    /\ ReqKind = JStr("ConfigMap") /\ HasLabel
    /\ Dig(ReqObject, <<"spec">>) = HomePodSpec

\* C5 as stated: for an eligible, well-formed Pod or Deployment the operations are
\* exactly one "replace" per mount whose mountPath equals the source prefix or starts
\* with source prefix + "/", at "<base>/<i>/volumeMounts/<j>/mountPath"
C5_OpsPerMatchingMount ==
    (Handled /\ Eligible /\ WellFormedObject) => ExactlyTheOps(MatchesSource)

\* C5 amended: ... or starts with the source prefix, its trailing slashes stripped,
\* followed by "/"
C5_OpsPerStrippedMatch ==
    (Handled /\ Eligible /\ WellFormedObject) => ExactlyTheOps(MatchesStrippedSource)

\* a labelled Deployment got operations for a second container and an init container
C5_Witness ==
    /\ Handled /\ Eligible /\ WellFormedObject
    /\ ReqKind = JStr("Deployment")
    /\ \E n \in 1..Len(DecodedOps) :
         startswith(DecodedOps[n].map.path.str, "/spec/template/spec/containers/1/")
    /\ "/spec/template/spec/initContainers/0/volumeMounts/0/mountPath" \in OpPaths

\* metadata and labels are such that the label check reaches labels.get
LabelCheckReached ==
    /\ Handled /\ IsWorkload
    /\ ReqOperation = Absent \/ IsStr(ReqOperation)
    /\ TakenForEmpty(ReqObject) \/ IsMap(ReqObject)

NoLabels ==
    TakenForEmpty(ReqMetadata) \/ (IsMap(ReqMetadata) /\ TakenForEmpty(ReqLabels))

\* C6 as stated: a container whose volumeMounts is absent or not a list counts as
\* having no mounts and a mount without a string mountPath is skipped, without an
\* error, so that the operations of every other matching mount are emitted
C6_ShapeErrorsNeverRaised ==
    ( /\ Handled /\ Eligible /\ IntermediatesOk
      /\ \A loc \in Locations : (loc.val = Absent \/ IsList(loc.val)) /\ MappingsOnly(loc.val) )
        => (~exc_logged /\ ExactlyTheOps(MatchesStrippedSource))

\* C6 amended: a volumeMounts that is absent, null or otherwise falsy counts as no
\* mounts and a mount without a string mountPath is skipped, the operations of the
\* other mounts being emitted; a truthy volumeMounts that is not a list raises in
\* the walk and the request is answered by the except branch without any patch
C6_FalsyIsEmptyElseFailOpen ==
    /\ ( /\ Handled /\ Eligible /\ IntermediatesOk
         /\ \A loc \in Locations : ListsOrEmpty(loc.val) /\ MappingsOnly(loc.val) )
           => (~exc_logged /\ ExactlyTheOps(MatchesStrippedSource))
    /\ ( /\ Handled /\ Eligible
         /\ \E loc \in Locations : SomeMountsNotAList(loc.val) )
           => (exc_logged /\ ~HasPatch /\ RespField("allowed") = JBool(TRUE))

\* next to a container whose volumeMounts is null, and next to a mount whose
\* mountPath is no string, the matching mounts got their operations
C6_Witness ==
    /\ Handled /\ Eligible /\ ~exc_logged /\ HasPatch
    /\ \E loc \in Locations :
         /\ IsList(loc.val)
         /\ \E i \in 1..Len(Items(loc.val)) :
              \/ Dig(Items(loc.val)[i], <<"volumeMounts">>) = None
              \/ \E j \in 1..Len(MountsOf(Items(loc.val)[i])) :
                   Dig(MountsOf(Items(loc.val)[i])[j], <<"mountPath">>) = JNum(5)

\* C7 as stated: for a Pod or Deployment whose metadata or metadata.labels is absent,
\* null or not a mapping, the label check does not raise and the request is allowed
\* without patch through the normal path
C7_MalformedMetadataNeverRaises ==
    (LabelCheckReached /\ (NoLabels \/ ~IsMap(ReqMetadata) \/ ~IsMap(ReqLabels)))
        => (~exc_logged /\ ~HasPatch /\ http_status = 200)

\* C7 amended: metadata or labels that is absent, null or otherwise falsy is taken
\* for no labels and answered without patch through the normal path; a truthy value
\* that is not a mapping raises in the label check and is answered by the except
\* branch, again allowed without patch and with the request's uid
C7_FalsyMetadataIsNoLabels ==
    /\ (LabelCheckReached /\ NoLabels)
         => (~exc_logged /\ ~HasPatch /\ http_status = 200)
    /\ (LabelCheckReached /\ ~NoLabels /\ (~IsMap(ReqMetadata) \/ ~IsMap(ReqLabels)))
         => ( /\ exc_logged /\ ~HasPatch /\ http_status = 200
              /\ RespField("allowed") = JBool(TRUE)
              /\ RespField("uid") = (IF ReqUid = Absent THEN None ELSE ReqUid) )

\* a Pod with mounts under the source prefix and null metadata was answered without
\* patch and without a logged exception
C7_Witness ==
    /\ LabelCheckReached /\ ReqKind = JStr("Pod")
    /\ ReqObject # Absent /\ IsMap(ReqObject) /\ ReqMetadata = None
    /\ Dig(ReqObject, <<"spec">>) = HomePodSpec
    /\ ~exc_logged /\ ~HasPatch

\* C8: when the body is a mapping whose request is a mapping containing uid, the
\* response carries that uid, also when it comes from the except branch; otherwise
\* response.uid is null
C8_UidEchoed ==
    Handled =>
        RespField("uid") = (IF ReqUid = Absent THEN None ELSE ReqUid)

\* a request that failed after its uid was read was answered with that uid
C8_Witness ==
    Handled /\ exc_logged /\ ReqUid = JStr("u-1") /\ RespField("uid") = JStr("u-1")

---------------------------------------------------------------------------
(* Claims about concurrent requests. *)

\* C10: handling requests never changes the configuration, and however the steps of
\* concurrent requests interleave, each request gets the response the handler
\* computes for its body alone
C10_RequestsIndependent ==
    /\ [][config' = config]_vars
    /\ [](\A t \in DOMAIN threads :
            threads[t].pc = "done" => threads[t].result = mutate(threads[t].raw))

\* a request answered with a patch while another was answered by the except branch
C10_Witness ==
    \E t, u \in DOMAIN threads :
        /\ threads[t].pc = "done" /\ threads[u].pc = "done"
        /\ Dig(threads[t].result.json, <<"response", "patch">>) # Absent
        /\ threads[u].result.exc_logged
        /\ threads[t].result = mutate(threads[t].raw)

====
